---- MODULE Spec2Model ----
(***************************************************************************)
(* College-football betting model: the edge-and-probability pipeline of    *)
(* app.py (build_picks and the views the dashboard derives from its table:  *)
(* strong picks, top 12, parlays), its futures-odds helpers, and            *)
(* build_weekly_picks of cfbpredict.py.                                     *)
(*                                                                         *)
(* Numbers are fixed point.  Points (ratings, spreads, edges) are integers  *)
(* in thousandths of a point; probabilities are integers in millionths.     *)
(* round(x, 2) on points and round(p, 3) on probabilities are therefore     *)
(* roundings to multiples of 10 and of 1000.                                *)
(***************************************************************************)
EXTENDS Integers, Sequences, FiniteSets, TLC

VARIABLES
  ratings,     \* the SP+ rating map
  home_field,  \* the home-field advantage of the run
  games,       \* the week's games with their lines
  focus,       \* position in games of the game under study, 0 for none
  pc,          \* where the script is
  df,          \* the picks table build_picks returned
  strong,      \* the Strong Picks view
  top12,       \* the Top-12 view
  call,        \* a helper function called on its own: [fn, arg, pref]
  ret,         \* what that call returned
  leg_count,   \* the "Number of legs" slider of the parlay tab
  parlay_pool, \* the picks the parlays are built from
  parlay_rows, \* the parlays, best first
  payout       \* the estimated payout multiplier, in hundredths

\* The variables of the parlay tab.
tab2 == <<leg_count, parlay_pool, parlay_rows, payout>>

vars == <<ratings, home_field, games, focus, pc, df, strong, top12, call, ret, tab2>>

(***************************************************************************)
(* Bounds of the model.                                                     *)
(***************************************************************************)
\* Longest list of ordinary games around the one game under study.
MaxBase == 2
\* Longest run of one repeated game in the slates used for the ranked views.
MaxRunLen == 6

(***************************************************************************)
(* Program constants.                                                       *)
(***************************************************************************)
SPREAD_STD_DEV == 13000
EDGE_THRESHOLD == 2000
COVER_PROB_THRESH == 550000
TIER_A_MIN == 600000
TIER_B_MIN == 550000
TIER_C_MIN == 520000
NO_EDGE_COVER == 500000
TOP_N == 12
PROVIDER == "consensus"
One == 1000000
LEG_COUNT_MIN == 2
LEG_COUNT_MAX == 6
LEG_COUNT_DEFAULT == 3
POOL_HEADROOM == 4
PARLAYS_SHOWN == 5
HOME_FIELD == 2500

(***************************************************************************)
(* JSON values.  None stands for a JSON null / Python None where a string   *)
(* is expected, MissingKey for a key that the dict does not have.           *)
(***************************************************************************)
None == "<None>"
MissingKey == "<missing>"

\* A spread value: a float, null, or a string that is no number.
Num(v) == [kind |-> "float", val |-> v]
NullSpread == [kind |-> "null", val |-> 0]
TextSpread == [kind |-> "text", val |-> 0]

Line(p, s) == [provider |-> p, spread |-> s]

\* The "lines" entry of a game: a list, null, or no such key.
List(ls) == [kind |-> "list", items |-> ls]
NullLines == [kind |-> "null", items |-> <<>>]
NoLinesKey == [kind |-> "missing", items |-> <<>>]

Game(h, a, ls) == [home_team |-> h, away_team |-> a, lines |-> ls]

(***************************************************************************)
(* Math helpers.                                                            *)
(***************************************************************************)
\* Phi(n / SPREAD_STD_DEV) in millionths for the margins n >= 0 (thousandths
\* of a point) that the inputs below can produce, as 0.5 * (1 + erf(z / sqrt 2))
\* evaluates in double precision.
NormalCdfTable ==
   (0 :> 500000) @@ (4 :> 500123) @@ (220 :> 506751) @@ (224 :> 506874) @@
   (496 :> 515217) @@ (500 :> 515340) @@ (504 :> 515463) @@ (720 :> 522084) @@
   (724 :> 522207) @@ (776 :> 523800) @@ (780 :> 523922) @@ (996 :> 530535) @@
   (1000 :> 530658) @@ (1004 :> 530780) @@ (1220 :> 537384) @@ (1276 :> 539095) @@
   (1280 :> 539217) @@ (1496 :> 545808) @@ (1500 :> 545930) @@ (1504 :> 546052) @@
   (1720 :> 552630) @@ (1724 :> 552751) @@ (1776 :> 554333) @@ (1780 :> 554454) @@
   (2000 :> 561134) @@ (2220 :> 567797) @@ (2276 :> 569490) @@ (2280 :> 569611) @@
   (2496 :> 576129) @@ (2500 :> 576249) @@ (2504 :> 576370) @@ (2720 :> 582866) @@
   (2724 :> 582986) @@ (2996 :> 591133) @@ (3004 :> 591372) @@ (3220 :> 597814) @@
   (3224 :> 597933) @@ (3276 :> 599479) @@ (3280 :> 599598) @@ (3496 :> 606006) @@
   (3500 :> 606124) @@ (3504 :> 606242) @@ (3776 :> 614268) @@ (3780 :> 614386) @@
   (3996 :> 620725) @@ (4000 :> 620842) @@ (4004 :> 620959) @@ (4220 :> 627264) @@
   (4224 :> 627380) @@ (4280 :> 629009) @@ (4300 :> 629591) @@
   (4720 :> 641726) @@ (4724 :> 641841) @@
   (4780 :> 643449) @@ (4996 :> 649625) @@ (5000 :> 649739) @@ (5004 :> 649853) @@
   (5220 :> 655988) @@ (5224 :> 656101) @@ (5496 :> 663768) @@ (5504 :> 663993) @@
   (5720 :> 670031) @@ (5724 :> 670143) @@ (5776 :> 671590) @@ (5780 :> 671701) @@
   (5996 :> 677683) @@ (6000 :> 677794) @@ (6004 :> 677904) @@ (6280 :> 685479) @@
   (6496 :> 691354) @@ (6500 :> 691462) @@ (6504 :> 691571) @@ (6720 :> 697395) @@
   (6724 :> 697502) @@ (6800 :> 699540) @@
   (7220 :> 710684) @@ (7224 :> 710789) @@ (7496 :> 717900) @@
   (7500 :> 718004) @@ (7504 :> 718108) @@ (7720 :> 723692) @@ (7996 :> 730748) @@
   (8000 :> 730850) @@ (8004 :> 730951) @@ (8220 :> 736407) @@ (8280 :> 737913) @@
   (8500 :> 743395) @@ (9000 :> 755628) @@ (9220 :> 760909) @@ (9224 :> 761005) @@
   (9720 :> 772677) @@ (9996 :> 779031) @@ (10000 :> 779122) @@ (10004 :> 779213) @@
   (10500 :> 790366) @@ (11720 :> 816349) @@ (12500 :> 831859)

\* normal_cdf(z) for z = n / std, std = SPREAD_STD_DEV.
normal_cdf(n) ==
  IF n >= 0 THEN NormalCdfTable[n] ELSE One - NormalCdfTable[-n]

\* Faulty variant: the A boundary exclusive.
classify_tier_strict(p) ==
  IF p > TIER_A_MIN THEN "A"
  ELSE IF p >= TIER_B_MIN THEN "B"
  ELSE IF p >= TIER_C_MIN THEN "C"
  ELSE "Pass"

classify_tier(p) ==
  IF p >= TIER_A_MIN THEN "A"
  ELSE IF p >= TIER_B_MIN THEN "B"
  ELSE IF p >= TIER_C_MIN THEN "C"
  ELSE "Pass"

Abs(x) == IF x >= 0 THEN x ELSE -x

\* round(x, 2) of a number of points; no input of the model lies on a tie.
Round2(x) ==
  IF x >= 0 THEN ((x + 5) \div 10) * 10 ELSE -(((-x + 5) \div 10) * 10)

\* round(p, 3) of a probability; no input of the model lies on a tie.
Round3(p) == ((p + 500) \div 1000) * 1000

\* Faulty variant: the percentage cut to one decimal instead of rounded.
american_to_implied_truncated(odds) ==
  IF odds > 0 THEN 100000 \div (odds + 100)
  ELSE (1000 * Abs(odds)) \div (Abs(odds) + 100)

\* round(num / den, 1) in tenths, for num / den given in tenths: half goes to
\* the even neighbour, which is what Python returns on the odds of the model.
RoundDiv(num, den) ==
  LET q == num \div den
      r == num % den
  IN IF 2 * r > den \/ (2 * r = den /\ q % 2 = 1) THEN q + 1 ELSE q

\* american_to_implied(odds): a percentage in tenths of a percent.
american_to_implied(odds) ==
  IF odds > 0 THEN RoundDiv(100 * 1000, odds + 100)
  ELSE RoundDiv(Abs(odds) * 1000, Abs(odds) + 100)

(***************************************************************************)
(* Futures odds: get_futures_odds from the parsed outcomes on.              *)
(***************************************************************************)
\* One parsed outcome.
Outcome(name, desc, odds) ==
  [name |-> name, team |-> desc, odds |-> odds, implied_prob |-> american_to_implied(odds)]

\* Faulty variant: an entry of equal odds replacing the one already kept.
UpsertKeepsLatest(seen, o) ==
  IF \E j \in 1..Len(seen) : seen[j].name = o.name
    THEN LET j == CHOOSE i \in 1..Len(seen) : seen[i].name = o.name
         IN IF o.odds <= seen[j].odds THEN [seen EXCEPT ![j] = o] ELSE seen
    ELSE Append(seen, o)

\* if key not in seen or o["odds"] < seen[key]["odds"]: seen[key] = o
\* seen is the dict as the list of its values: a new key goes to the end, a
\* replaced value keeps the place of its key.
Upsert(seen, o) ==
  IF \E j \in 1..Len(seen) : seen[j].name = o.name
    THEN LET j == CHOOSE i \in 1..Len(seen) : seen[i].name = o.name
         IN IF o.odds < seen[j].odds THEN [seen EXCEPT ![j] = o] ELSE seen
    ELSE Append(seen, o)

\* The de-dupe loop over the first i outcomes.
RECURSIVE SeenAfter(_, _)
SeenAfter(outcomes, i) ==
  IF i = 0 THEN <<>> ELSE Upsert(SeenAfter(outcomes, i - 1), outcomes[i])

MinOdds(es) == CHOOSE v \in {es[i].odds : i \in 1..Len(es)} :
                 \A i \in 1..Len(es) : v <= es[i].odds

\* sorted(seen.values(), key=odds): a stable sort.
RECURSIVE SortedByOdds(_)
SortedByOdds(es) ==
  IF es = <<>> THEN <<>>
  ELSE LET m == MinOdds(es)
       IN SelectSeq(es, LAMBDA e : e.odds = m)
            \o SortedByOdds(SelectSeq(es, LAMBDA e : e.odds # m))

\* get_futures_odds once the response is parsed into outcomes: "no_data" or
\* the de-duplicated list.
get_futures_odds(outcomes) ==
  IF outcomes = <<>> THEN [kind |-> "no_data", items |-> <<>>]
  ELSE [kind |-> "list", items |-> SortedByOdds(SeenAfter(outcomes, Len(outcomes)))]

(***************************************************************************)
(* Line selection.                                                          *)
(***************************************************************************)
\* str.lower() on the provider names of the model.
Lower(s) ==
  CASE s = "Consensus" -> "consensus"
    [] s = "CONSENSUS" -> "consensus"
    [] s = "Bovada" -> "bovada"
    [] s = "DraftKings" -> "draftkings"
    [] OTHER -> s

\* (x or "")
OrEmpty(p) == IF p = None THEN "" ELSE p

\* game.get("lines") or []
LinesOf(game) == IF game.lines.kind = "list" THEN game.lines.items ELSE <<>>

\* The for-loop of pick_line from position i: the index of the first line whose
\* provider matches pref ignoring case, 0 when the loop ends without a return.
RECURSIVE FirstMatch(_, _, _)
FirstMatch(lines, pref, i) ==
  IF i > Len(lines) THEN 0
  ELSE IF Lower(OrEmpty(lines[i].provider)) = Lower(pref) THEN i
  ELSE FirstMatch(lines, pref, i + 1)

\* Faulty variant: the provider comparison case-sensitive.
RECURSIVE FirstExactMatch(_, _, _)
FirstExactMatch(lines, pref, i) ==
  IF i > Len(lines) THEN 0
  ELSE IF OrEmpty(lines[i].provider) = pref THEN i
  ELSE FirstExactMatch(lines, pref, i + 1)

PickLineCaseSensitive(lines, pref) ==
  IF lines = <<>> THEN 0
  ELSE LET i == FirstExactMatch(lines, pref, 1)
       IN IF i # 0 THEN i ELSE 1

\* Index of the line pick_line returns, 0 for None.
PickLineIndex(lines, pref) ==
  IF lines = <<>> THEN 0
  ELSE LET i == FirstMatch(lines, pref, 1)
       IN IF i # 0 THEN i ELSE 1

NoLine == Line(MissingKey, NullSpread)

\* Faulty variant: a line with a null spread passed over when another line of the game
\* has a numeric one.
PickLineSkipsNull(game, pref) ==
  LET lines == LinesOf(game)
      i == PickLineIndex(lines, pref)
      numeric == {j \in 1..Len(lines) : lines[j].spread.kind = "float"}
  IN IF i = 0 THEN [found |-> FALSE, line |-> NoLine]
     ELSE IF lines[i].spread.kind = "null" /\ numeric # {}
       THEN [found |-> TRUE, line |-> lines[CHOOSE j \in numeric : \A k \in numeric : j <= k]]
     ELSE [found |-> TRUE, line |-> lines[i]]

\* pick_line(game, pref); found = FALSE is the None result.
pick_line(game, pref) ==
  LET lines == LinesOf(game)
      i == PickLineIndex(lines, pref)
  IN IF i = 0 THEN [found |-> FALSE, line |-> NoLine]
     ELSE [found |-> TRUE, line |-> lines[i]]

(***************************************************************************)
(* The edge model: one game of build_picks.                                 *)
(***************************************************************************)
\* home not in ratings or away not in ratings
Unrated(home, away, rts) == home \notin DOMAIN rts \/ away \notin DOMAIN rts

\* model_spread = (ratings[home] - ratings[away]) + hf
ModelSpread(home, away, rts, hf) == (rts[home] - rts[away]) + hf

\* Faulty variant: the market spread subtracted.
EdgeSubtracts(model_spread, market_spread) == model_spread - market_spread

\* edge = model_spread + market_spread
Edge(model_spread, market_spread) == model_spread + market_spread

\* home_cover = 1.0 - normal_cdf((-market_spread - model_spread) / std)
HomeCover(model_spread, market_spread) ==
  One - normal_cdf(-market_spread - model_spread)

\* The side, the side's cover probability and the team attached to the pick.
Side(edge, home_cover, home, away) ==
  IF edge > 0 THEN [pick |-> <<"HOME", home>>, cover |-> home_cover, pick_team |-> home]
  ELSE IF edge < 0 THEN [pick |-> <<"AWAY", away>>, cover |-> One - home_cover, pick_team |-> away]
  ELSE [pick |-> <<"NO EDGE">>, cover |-> NO_EDGE_COVER, pick_team |-> ""]

\* The dict appended to rows.
PickRow(game, ln, rts, hf) ==
  LET home == game.home_team
      away == game.away_team
      model_spread == ModelSpread(home, away, rts, hf)
      market_spread == ln.spread.val
      edge == Edge(model_spread, market_spread)
      home_cover == HomeCover(model_spread, market_spread)
      side == Side(edge, home_cover, home, away)
  IN [home_team |-> home, away_team |-> away, pick_team |-> side.pick_team,
      provider |-> ln.provider,
      sp_home_rating |-> Round2(rts[home]), sp_away_rating |-> Round2(rts[away]),
      model_spread_home |-> Round2(model_spread), market_spread_home |-> market_spread,
      edge_points |-> Round2(edge), cover_prob |-> Round3(side.cover),
      tier |-> classify_tier(side.cover), model_pick |-> side.pick]

\* Faulty variant: a null spread on the selected line defaulted to 0.0 instead of
\* skipping the game.
GameOutcomeDefaultsSpread(game, rts, hf, prov) ==
  LET sel == pick_line(game, prov)
  IN IF ~sel.found THEN [kind |-> "skip"]
     ELSE IF game.home_team = MissingKey \/ game.away_team = MissingKey
       THEN [kind |-> "raise"]
     ELSE IF Unrated(game.home_team, game.away_team, rts) THEN [kind |-> "skip"]
     ELSE IF sel.line.spread.kind \notin {"float", "null"} THEN [kind |-> "raise"]
     ELSE [kind |-> "row", row |-> PickRow(game, sel.line, rts, hf)]

\* One iteration of the loop: "skip" (continue), "row" (append) or "raise"
\* (KeyError from game["home_team"] / game["away_team"], ValueError from
\* float(ln["spread"]) on a string that is no number).
GameOutcome(game, rts, hf, prov) ==
  LET sel == pick_line(game, prov)
  IN IF ~sel.found \/ sel.line.spread.kind = "null" THEN [kind |-> "skip"]
     ELSE IF game.home_team = MissingKey \/ game.away_team = MissingKey
       THEN [kind |-> "raise"]
     ELSE IF Unrated(game.home_team, game.away_team, rts) THEN [kind |-> "skip"]
     ELSE IF sel.line.spread.kind # "float" THEN [kind |-> "raise"]
     ELSE [kind |-> "row", row |-> PickRow(game, sel.line, rts, hf)]

\* The loop of build_picks from game i on, rows collected so far in acc.
RECURSIVE BuildFrom(_, _, _, _, _, _)
BuildFrom(gs, i, acc, rts, hf, prov) ==
  IF i > Len(gs) THEN [raised |-> FALSE, rows |-> acc]
  ELSE LET o == GameOutcome(gs[i], rts, hf, prov)
       IN IF o.kind = "raise" THEN [raised |-> TRUE, rows |-> <<>>]
          ELSE BuildFrom(gs, i + 1,
                         IF o.kind = "row" THEN Append(acc, o.row) ELSE acc,
                         rts, hf, prov)

build_picks(gs, rts, hf, prov) == BuildFrom(gs, 1, <<>>, rts, hf, prov)

(***************************************************************************)
(* The views over the picks table.                                          *)
(***************************************************************************)
\* Faulty variant: the edge threshold exclusive.
IsStrongExclusive(r) ==
  /\ Abs(r.edge_points) > EDGE_THRESHOLD
  /\ r.cover_prob >= COVER_PROB_THRESH
  /\ r.tier # "Pass"

\* One row of the boolean mask of the Strong Picks filter.
IsStrong(r) ==
  /\ Abs(r.edge_points) >= EDGE_THRESHOLD
  /\ r.cover_prob >= COVER_PROB_THRESH
  /\ r.tier # "Pass"

StrongOf(rows) == SelectSeq(rows, IsStrong)

\* Faulty variant: the Pass rows not filtered out.
NotPassDropped(r) == TRUE

NotPass(r) == r.tier # "Pass"

Range(s) == {s[i] : i \in 1..Len(s)}

\* s without its first occurrence of r.
RECURSIVE RemoveOne(_, _)
RemoveOne(s, r) ==
  IF s = <<>> THEN <<>>
  ELSE IF Head(s) = r THEN Tail(s)
  ELSE <<Head(s)>> \o RemoveOne(Tail(s), r)

MaxCover(s) == CHOOSE c \in {r.cover_prob : r \in Range(s)} :
                 \A r \in Range(s) : r.cover_prob <= c

\* sort_values("Cover Prob", ascending=False) with the default kind (quicksort,
\* which pandas documents as not stable): every arrangement of the rows in
\* non-increasing cover_prob order is a possible result.
RECURSIVE SortDescending(_)
SortDescending(s) ==
  IF s = <<>> THEN {<<>>}
  ELSE LET firsts == {r \in Range(s) : r.cover_prob = MaxCover(s)}
       IN UNION {{<<r>> \o t : t \in SortDescending(RemoveOne(s, r))} : r \in firsts}

\* DataFrame.head(n)
HeadN(s, n) == SubSeq(s, 1, IF Len(s) < n THEN Len(s) ELSE n)

(***************************************************************************)
(* The parlay tab.                                                          *)
(***************************************************************************)
\* One row of the mask df["Tier"].isin(["A","B"]) & (df["pick_team"] != "")
ParlayEligible(r) == r.tier \in {"A", "B"} /\ r.pick_team # ""

\* Faulty variant: the pool cut to leg_count rows, without the headroom.
PoolSizeNoHeadroom(k) == k

\* pool_size = leg_count + 4
PoolSize(k) == k + POOL_HEADROOM

\* Faulty variant: the eligible rows cut to pool_size in table order, unsorted.
ParlayPoolsUnsorted(rows, k) == {HeadN(SelectSeq(rows, ParlayEligible), PoolSize(k))}

\* The possible values of parlay_pool: the eligible rows sorted by cover_prob
\* descending (any order among equal cover_prob), cut to pool_size.
ParlayPools(rows, k) ==
  {HeadN(sorted, PoolSize(k)) : sorted \in SortDescending(SelectSeq(rows, ParlayEligible))}

\* itertools.combinations over the positions lo..n, k at a time, in the
\* lexicographic order in which it yields them.
RECURSIVE Combinations(_, _, _)
Combinations(lo, n, k) ==
  IF k = 0 THEN <<<<>>>>
  ELSE IF n - lo + 1 < k THEN <<>>
  ELSE LET with == Combinations(lo + 1, n, k - 1)
       IN [i \in 1..Len(with) |-> <<lo>> \o with[i]] \o Combinations(lo + 1, n, k)

\* x * p + carry for a natural number x written in base 1000, lowest digit
\* first, and 0 <= p <= 1000.
RECURSIVE MulDigits(_, _, _)
MulDigits(x, p, carry) ==
  IF x = <<>> THEN <<carry>>
  ELSE LET v == Head(x) * p + carry
       IN <<v % 1000>> \o MulDigits(Tail(x), p, v \div 1000)

\* The product of the cover_prob of the legs c of the pool, each taken in
\* thousandths, as a base-1000 number: the product times 1000^Len(c).
RECURSIVE ProdDigits(_, _, _)
ProdDigits(pool, c, i) ==
  IF i = 0 THEN <<1>>
  ELSE MulDigits(ProdDigits(pool, c, i - 1), pool[c[i]].cover_prob \div 1000, 0)

\* The value of the digits of x from position i up.
RECURSIVE DigitsValue(_, _)
DigitsValue(x, i) ==
  IF i > Len(x) THEN 0 ELSE x[i] + 1000 * DigitsValue(x, i + 1)

\* round(product, 4) in ten-thousandths: ten times the product has its
\* fraction in the n - 1 lowest digits; no product of the model lies on a
\* half, where the float product decides.
Round4(digits, n) ==
  LET x == MulDigits(digits, 10, 0)
      whole == DigitsValue(x, n)
      top == IF n > 1 THEN x[n - 1] ELSE 0
      rest == \E i \in 1..(n - 2) : x[i] # 0
  IN IF top > 500 \/ (top = 500 /\ rest) THEN whole + 1
     ELSE IF top = 500 /\ whole % 2 = 1 THEN whole + 1
     ELSE whole

\* Faulty variant: the joint probability taken from the first leg alone.
JointProbFirstLeg(pool, c) == pool[c[1]].cover_prob \div 100

\* round(parlay_pool.loc[list(c), "Cover Prob"].prod(), 4), in ten-thousandths.
JointProb(pool, c) == Round4(ProdDigits(pool, c, Len(c)), Len(c))

MaxJoint(ps) == CHOOSE v \in {ps[i].joint_prob : i \in 1..Len(ps)} :
                  \A i \in 1..Len(ps) : ps[i].joint_prob <= v

\* sorted(..., key=joint_prob, reverse=True): a stable sort, entries of equal
\* joint_prob stay in the order of the list.
RECURSIVE SortedByJointProb(_)
SortedByJointProb(ps) ==
  IF ps = <<>> THEN <<>>
  ELSE LET m == MaxJoint(ps)
       IN SelectSeq(ps, LAMBDA e : e.joint_prob = m)
            \o SortedByJointProb(SelectSeq(ps, LAMBDA e : e.joint_prob # m))

\* parlay_rows: one entry per combination, legs as positions in parlay_pool.
ParlayRows(pool, k) ==
  LET combos == Combinations(1, Len(pool), k)
  IN SortedByJointProb([i \in 1..Len(combos) |->
       [joint_prob |-> JointProb(pool, combos[i]), legs |-> combos[i]]])

\* parlay_rows[:5], the parlays the tab shows.
ParlaysShown(ps) == HeadN(ps, PARLAYS_SHOWN)

\* b^k
RECURSIVE Pow(_, _)
Pow(b, k) == IF k = 0 THEN 1 ELSE b * Pow(b, k - 1)

\* Faulty variant: the stake left out of the return, (100 / 110) ** leg_count.
PayoutProfitOnly(k) ==
  LET num == Pow(10, k)
      den == Pow(11, k)
  IN (num * 200 + den) \div (2 * den)

\* payout = round(((100 / 110) + 1) ** leg_count, 2), in hundredths:
\* (100 + 110) / 110 = 21 / 11.
Payout(k) ==
  LET num == Pow(21, k)
      den == Pow(11, k)
      whole == num \div den
      frac == ((num % den) * 200 + den) \div (2 * den)
  IN whole * 100 + frac

\* Faulty variant: the tab refusing a pool of exactly leg_count picks.
TooFewStrict(pool, k) == Len(pool) <= k

\* len(parlay_pool) < leg_count
TooFew(pool, k) == Len(pool) < k

(***************************************************************************)
(* Inputs.                                                                  *)
(***************************************************************************)
\* SP+ ratings: TeamU has no rating.
SP_RATINGS ==
  ("TeamX" :> 15000) @@ ("TeamY" :> 10000) @@ ("TeamZ" :> 12504) @@ ("TeamV" :> 10780)

RatingInputs == {SP_RATINGS}

\* The sidebar's home-field advantage: any multiple of 0.5 in 0..10, 2.5 suggested.
HomeFieldInputs == {0, 2500}

Spreads == {-7500, -5500, -5000, -4000, 0, 1000}

SpreadInputs == {NullSpread} \cup {Num(v) : v \in Spreads}

Matchups ==
  {<<"TeamX", "TeamY">>, <<"TeamY", "TeamX">>, <<"TeamZ", "TeamY">>,
   <<"TeamV", "TeamY">>, <<"TeamX", "TeamZ">>, <<"TeamU", "TeamY">>,
   <<"TeamX", "TeamU">>}

\* Games with one line of the preferred provider: every matchup at every spread.
EdgeGames ==
  {Game(m[1], m[2], List(<<Line(PROVIDER, s)>>)) : m \in Matchups, s \in SpreadInputs}

ProviderInputs == {"consensus", "Consensus", "Bovada", None}

LineInputs ==
  {Line(p, s) : p \in ProviderInputs, s \in {NullSpread, Num(-4000)}}

\* Longest list of lines of one game.
MaxLines == 2

LinesInputs ==
  {NoLinesKey, NullLines}
    \cup {List(ls) : ls \in UNION {[1..n -> LineInputs] : n \in 0..MaxLines}}

\* One matchup with every shape of the lines list.
LineGames == {Game("TeamX", "TeamY", ls) : ls \in LinesInputs}

GameInputs == EdgeGames \cup LineGames

\* The ordinary games around the game under study.
BaseGames ==
  {Game("TeamX", "TeamY", List(<<Line(PROVIDER, Num(-4000))>>)),
   Game("TeamY", "TeamU", List(<<Line("Bovada", Num(0))>>))}

BaseLists == UNION {[1..n -> BaseGames] : n \in 0..MaxBase}

InsertAt(s, k, g) == SubSeq(s, 1, k - 1) \o <<g>> \o SubSeq(s, k, Len(s))

RemoveAt(s, k) == SubSeq(s, 1, k - 1) \o SubSeq(s, k + 1, Len(s))

(***************************************************************************)
(* The run of the dashboard script after RUN MODEL is pressed.              *)
(***************************************************************************)
NoCall == [fn |-> "none"]
Pending == [done |-> FALSE]
Returned(v) == [done |-> TRUE, val |-> v]

\* The parlay tab before the script reaches it, the slider at k: nothing
\* computed yet.
ParlaysAt(k) ==
  /\ leg_count = k
  /\ parlay_pool = <<>>
  /\ parlay_rows = <<>>
  /\ payout = 0

\* The slider untouched, at its default.
NoParlays == ParlaysAt(LEG_COUNT_DEFAULT)

\* The state before build_picks is called on a slate drawn from gameSet;
\* focus is the position of the game under study (0: the slate is base only).
InitWith(gameSet) ==
  /\ ratings \in RatingInputs
  /\ home_field \in HomeFieldInputs
  /\ \E base \in BaseLists :
       \/ games = base /\ focus = 0
       \/ \E g \in gameSet, k \in 1..(Len(base) + 1) :
            games = InsertAt(base, k, g) /\ focus = k
  /\ pc = "start"
  /\ df = <<>>
  /\ strong = <<>>
  /\ top12 = <<>>
  /\ call = NoCall
  /\ ret = Pending
  /\ NoParlays

Init == InitWith(GameInputs)

\* df = build_picks(...) inside try/except: an exception ends the run
\* (st.error, st.stop).
RunModel ==
  /\ pc = "start"
  /\ LET res == build_picks(games, ratings, home_field, PROVIDER)
     IN IF res.raised
          THEN pc' = "api_error" /\ df' = <<>>
          ELSE pc' = "built" /\ df' = res.rows
  /\ UNCHANGED <<ratings, home_field, games, focus, strong, top12, call, ret, tab2>>

\* if df.empty: st.warning(...); st.stop()
DfEmptyGuard ==
  /\ pc = "built"
  /\ df = <<>>
  /\ pc' = "no_games"
  /\ UNCHANGED <<ratings, home_field, games, focus, df, strong, top12, call, ret, tab2>>

\* strong = df[(|Edge| >= EDGE_THRESHOLD) & (Cover Prob >= COVER_PROB_THRESH) & (Tier != Pass)]
Strong ==
  /\ pc = "built"
  /\ df # <<>>
  /\ strong' = StrongOf(df)
  /\ pc' = "strong"
  /\ UNCHANGED <<ratings, home_field, games, focus, df, top12, call, ret, tab2>>

\* top12 = df[Tier != Pass].sort_values("Cover Prob", ascending=False).head(12)
Top12 ==
  /\ pc = "strong"
  /\ \E sorted \in SortDescending(SelectSeq(df, NotPass)) :
       top12' = HeadN(sorted, TOP_N)
  /\ pc' = "tab1"
  /\ UNCHANGED <<ratings, home_field, games, focus, df, strong, call, ret, tab2>>

\* Tab 2: the pool for the slider's leg count, then either the "not enough
\* picks" notice or the parlays and their payout.
Parlays ==
  /\ pc = "tab1"
  /\ \E pool \in ParlayPools(df, leg_count) :
       /\ parlay_pool' = pool
       /\ IF TooFew(pool, leg_count)
            THEN /\ pc' = "too_few"
                 /\ UNCHANGED <<parlay_rows, payout>>
            ELSE /\ pc' = "parlays"
                 /\ parlay_rows' = ParlayRows(pool, leg_count)
                 /\ payout' = Payout(leg_count)
  /\ UNCHANGED <<ratings, home_field, games, focus, df, strong, top12, call, ret, leg_count>>

Next == RunModel \/ DfEmptyGuard \/ Strong \/ Top12 \/ Parlays

Spec == Init /\ [][Next]_vars

(***************************************************************************)
(* A slate with one game that has a missing or unusable field.              *)
(***************************************************************************)
BadLinesInputs ==
  {NoLinesKey, NullLines, List(<<>>),
   List(<<Line(PROVIDER, NullSpread)>>),
   List(<<Line(PROVIDER, TextSpread)>>),
   List(<<Line(PROVIDER, Num(-4000))>>)}

\* Every mix of a missing key, an unrated team and an unusable lines entry,
\* less the one game in which nothing is wrong.
BadGames ==
  {Game(h, a, ls) : h \in {"TeamX", "TeamU", MissingKey},
                    a \in {"TeamY", "TeamU", MissingKey},
                    ls \in BadLinesInputs}
    \ {Game("TeamX", "TeamY", List(<<Line(PROVIDER, Num(-4000))>>))}

InitBadGame == InitWith(BadGames)

SpecBadGame == InitBadGame /\ [][Next]_vars

(***************************************************************************)
(* Full slates for the ranked views: two runs of a repeated game with one   *)
(* other game somewhere among them.                                         *)
(***************************************************************************)
\* TeamX -4.0, TeamX -5.0 and TeamX -7.5 at home to TeamY.
SlateGames ==
  {Game("TeamX", "TeamY", List(<<Line(PROVIDER, Num(s))>>)) : s \in {-4000, -5000, -7500}}

\* TeamY at home to TeamX at pick'em: with 2.5 points of home field the same
\* cover probability as TeamX -5.0 at home, on the other side.
TopFocusGames ==
  {Game("TeamY", "TeamX", List(<<Line("Bovada", Num(0))>>)),
   Game("TeamZ", "TeamY", List(<<Line(PROVIDER, Num(-4000))>>))}

Run(g, n) == [i \in 1..n |-> g]

InitTop ==
  /\ ratings \in RatingInputs
  /\ home_field \in HomeFieldInputs
  /\ \E g1 \in SlateGames, g2 \in SlateGames, n1 \in 0..MaxRunLen, n2 \in 0..MaxRunLen :
       LET base == Run(g1, n1) \o Run(g2, n2)
       IN \/ games = base /\ focus = 0
          \/ \E g \in TopFocusGames, k \in 1..(Len(base) + 1) :
               games = InsertAt(base, k, g) /\ focus = k
  /\ pc = "start"
  /\ df = <<>>
  /\ strong = <<>>
  /\ top12 = <<>>
  /\ call = NoCall
  /\ ret = Pending
  /\ NoParlays

SpecTop == InitTop /\ [][Next]_vars

(***************************************************************************)
(* Slates for the parlay tab, at every position of the leg-count slider.    *)
(***************************************************************************)
\* Most eligible picks of a parlay slate, less one.
MaxSlate == 10

\* The SP+ ratings and one more team, TeamW at 14.3.
PARLAY_RATINGS == SP_RATINGS @@ ("TeamW" :> 14300)

\* With 2.5 points of home field: TeamX -5.0 covers at 0.576 (tier B) and
\* TeamX -4.0 at 0.606 (tier A).  With none: NO EDGE and 0.531 (tier C).
ParlayLean == Game("TeamX", "TeamY", List(<<Line(PROVIDER, Num(-5000))>>))
ParlayFavourite == Game("TeamX", "TeamY", List(<<Line(PROVIDER, Num(-4000))>>))

\* NO EDGE with 2.5 points of home field.
ParlayNoEdge == Game("TeamX", "TeamY", List(<<Line(PROVIDER, Num(-7500))>>))

\* The away side at 0.576 with 2.5 points of home field, as ParlayLean on the
\* home side; at 0.650 with none.
ParlayAwayLean == Game("TeamY", "TeamX", List(<<Line("Bovada", Num(0))>>))

\* Three picks that cover at 0.700, 0.650 and 0.600 with 2.5 points of home field.
ParlayTrio ==
  <<Game("TeamW", "TeamY", List(<<Line(PROVIDER, Num(0))>>)),
    Game("TeamX", "TeamY", List(<<Line(PROVIDER, Num(-2500))>>)),
    Game("TeamV", "TeamY", List(<<Line(PROVIDER, Num(0))>>))>>

\* The lesser picks listed before the better ones, with or without a game
\* that gives no pick; or one away pick after a run of home picks of the same
\* cover probability.
ParlaySlates ==
  {ParlayTrio}
    \cup {Run(ParlayLean, n1) \o Run(ParlayFavourite, n2) \o last :
            n1 \in 0..(MaxSlate + 1), n2 \in 0..(MaxSlate + 1),
            last \in {<<>>, <<ParlayNoEdge>>}}
    \cup {Run(ParlayLean, n) \o <<ParlayAwayLean>> : n \in 0..MaxSlate}

\* The games of a slate that can give a tier A or B pick.
EligibleGames(s) == SelectSeq(s, LAMBDA g : g # ParlayNoEdge)

InitParlay ==
  /\ ratings = PARLAY_RATINGS
  /\ home_field \in HomeFieldInputs
  /\ games \in {s \in ParlaySlates : Len(EligibleGames(s)) <= MaxSlate + 1}
  /\ focus = 0
  /\ pc = "start"
  /\ df = <<>>
  /\ strong = <<>>
  /\ top12 = <<>>
  /\ call = NoCall
  /\ ret = Pending
  /\ \E k \in LEG_COUNT_MIN..LEG_COUNT_MAX : ParlaysAt(k)

SpecParlay == InitParlay /\ [][Next]_vars

(***************************************************************************)
(* cfbpredict.py: build_weekly_picks, the same pipeline as a script.        *)
(***************************************************************************)
\* A row of cfbpredict.py: the columns of app.py's row but pick_team.
WeeklyRow(r) ==
  [home_team |-> r.home_team, away_team |-> r.away_team, provider |-> r.provider,
   sp_home_rating |-> r.sp_home_rating, sp_away_rating |-> r.sp_away_rating,
   model_spread_home |-> r.model_spread_home, market_spread_home |-> r.market_spread_home,
   edge_points |-> r.edge_points, cover_prob |-> r.cover_prob,
   tier |-> r.tier, model_pick |-> r.model_pick]

\* The loop over the games is that of build_picks with the home field fixed at
\* HOME_FIELD; a spread that is no number raises here as well (TypeError from
\* the addition).  pd.DataFrame(rows) of no rows has no columns, and
\* df["edge_points"] then raises KeyError.  The strong edges are sorted by
\* cover_prob descending with the default sort.
build_weekly_picks(gs, rts) ==
  LET res == build_picks(gs, rts, HOME_FIELD, PROVIDER)
      rows == [i \in 1..Len(res.rows) |-> WeeklyRow(res.rows[i])]
  IN IF res.raised \/ rows = <<>>
       THEN {[raised |-> TRUE, strong_edges |-> <<>>, all_games |-> <<>>]}
       ELSE {[raised |-> FALSE, strong_edges |-> sorted, all_games |-> rows] :
               sorted \in SortDescending(StrongOf(rows))}

InitWeekly ==
  /\ ratings \in RatingInputs
  /\ home_field = HOME_FIELD
  /\ \E base \in BaseLists :
       \/ games = base /\ focus = 0
       \/ \E g \in GameInputs, k \in 1..(Len(base) + 1) :
            games = InsertAt(base, k, g) /\ focus = k
  /\ pc = "call"
  /\ df = <<>>
  /\ strong = <<>>
  /\ top12 = <<>>
  /\ call = [fn |-> "build_weekly_picks"]
  /\ ret = Pending
  /\ NoParlays

\* strong, all_games = build_weekly_picks(YEAR, WEEK)
CallBuildWeeklyPicks ==
  /\ pc = "call"
  /\ call.fn = "build_weekly_picks"
  /\ ret = Pending
  /\ \E res \in build_weekly_picks(games, ratings) : ret' = Returned(res)
  /\ UNCHANGED <<ratings, home_field, games, focus, pc, df, strong, top12, call, tab2>>

NextWeekly == CallBuildWeeklyPicks

SpecWeekly == InitWeekly /\ [][NextWeekly]_vars

(***************************************************************************)
(* The helper functions called on their own.                                *)
(***************************************************************************)
\* Probabilities in millionths: a grid over [0, 1] and the neighbourhood of
\* every tier boundary.
ProbInputs ==
  {i * 20000 : i \in 0..50}
    \cup {t + d : t \in {TIER_A_MIN, TIER_B_MIN, TIER_C_MIN}, d \in -2..2}

PrefInputs == {"consensus", "CONSENSUS", "Bovada", "DraftKings", ""}

\* American odds: every price up to MaxOdds either way, and long prices.
MaxOdds == 300

OddsInputs ==
  (-MaxOdds..MaxOdds)
    \cup {-1000000, -200000, -199900, -199899, -10000, -1500, 1500, 10000, 1000000}

\* Longest list of parsed outcomes.
MaxOutcomes == 3

\* Two names, each under two descriptions, at three prices.
OutcomeInputs ==
  {Outcome(n, d, o) : n \in {"Georgia", "Ohio State"}, d \in {"", "SEC"}, o \in {-150, 150, 300}}

OutcomesInputs == UNION {[1..n -> OutcomeInputs] : n \in 0..MaxOutcomes}

InitCalls ==
  /\ ratings \in RatingInputs
  /\ home_field = 2500
  /\ games = <<>>
  /\ focus = 0
  /\ pc = "call"
  /\ df = <<>>
  /\ strong = <<>>
  /\ top12 = <<>>
  /\ \/ \E p \in ProbInputs : call = [fn |-> "classify_tier", arg |-> p]
     \/ \E g \in LineGames, pref \in PrefInputs :
          call = [fn |-> "pick_line", arg |-> g, pref |-> pref]
     \/ \E odds \in OddsInputs : call = [fn |-> "american_to_implied", arg |-> odds]
     \/ \E outcomes \in OutcomesInputs : call = [fn |-> "get_futures_odds", arg |-> outcomes]
  /\ ret = Pending
  /\ NoParlays

CallClassifyTier ==
  /\ pc = "call"
  /\ call.fn = "classify_tier"
  /\ ret = Pending
  /\ ret' = Returned(classify_tier(call.arg))
  /\ UNCHANGED <<ratings, home_field, games, focus, pc, df, strong, top12, call, tab2>>

CallPickLine ==
  /\ pc = "call"
  /\ call.fn = "pick_line"
  /\ ret = Pending
  /\ ret' = Returned(pick_line(call.arg, call.pref))
  /\ UNCHANGED <<ratings, home_field, games, focus, pc, df, strong, top12, call, tab2>>

CallAmericanToImplied ==
  /\ pc = "call"
  /\ call.fn = "american_to_implied"
  /\ ret = Pending
  /\ ret' = Returned(american_to_implied(call.arg))
  /\ UNCHANGED <<ratings, home_field, games, focus, pc, df, strong, top12, call, tab2>>

CallGetFuturesOdds ==
  /\ pc = "call"
  /\ call.fn = "get_futures_odds"
  /\ ret = Pending
  /\ ret' = Returned(get_futures_odds(call.arg))
  /\ UNCHANGED <<ratings, home_field, games, focus, pc, df, strong, top12, call, tab2>>

NextCalls == CallClassifyTier \/ CallPickLine \/ CallAmericanToImplied \/ CallGetFuturesOdds

SpecCalls == InitCalls /\ [][NextCalls]_vars

(***************************************************************************)
(* Properties.                                                              *)
(***************************************************************************)
\* build_picks has returned its table.
Built == pc \in {"built", "no_games", "strong", "tab1", "too_few", "parlays"}

RowsOf(t) == {t[i] : i \in 1..Len(t)}

\* C1: every row's edge is m + s, with m = (rating[home] - rating[away]) +
\* home_field and s the market spread of the row, and the side follows the sign
\* of that edge: positive picks the home team with the home cover probability,
\* negative picks the away team with one minus it, zero gives NO EDGE with
\* cover 0.5 and no team.
C1_EdgeAndSide ==
  Built =>
    \A r \in RowsOf(df) :
      LET m == (ratings[r.home_team] - ratings[r.away_team]) + home_field
          s == r.market_spread_home
          home_cover == One - normal_cdf(-s - m)
      IN /\ r.model_spread_home = Round2(m)
         /\ r.edge_points = Round2(m + s)
         /\ m + s > 0 =>
              /\ r.model_pick = <<"HOME", r.home_team>>
              /\ r.pick_team = r.home_team
              /\ r.cover_prob = Round3(home_cover)
         /\ m + s < 0 =>
              /\ r.model_pick = <<"AWAY", r.away_team>>
              /\ r.pick_team = r.away_team
              /\ r.cover_prob = Round3(One - home_cover)
         /\ m + s = 0 =>
              /\ r.model_pick = <<"NO EDGE">>
              /\ r.pick_team = ""
              /\ r.cover_prob = NO_EDGE_COVER

\* C1 witness: ratings 15.0 and 10.0, home field 2.5, spread -4.0 give a row
\* with model spread 7.5 and edge 3.5 that picks the home team, next to a row
\* picking the away team or a NO EDGE row.
C1_Witness ==
  /\ Built
  /\ home_field = 2500
  /\ \E r \in RowsOf(df) :
       /\ ratings[r.home_team] = 15000 /\ ratings[r.away_team] = 10000
       /\ r.market_spread_home = -4000
       /\ r.model_spread_home = 7500 /\ r.edge_points = 3500
       /\ r.model_pick = <<"HOME", r.home_team>>
  /\ \E r \in RowsOf(df) : r.model_pick[1] \in {"AWAY", "NO EDGE"}

\* C2: classify_tier is a total step function with lower-inclusive boundaries:
\* p >= 0.60 gives A, 0.55 <= p < 0.60 gives B, 0.52 <= p < 0.55 gives C,
\* p < 0.52 gives Pass; 0.60 -> A, 0.599999 -> B, 0.55 -> B, 0.52 -> C,
\* 0.519999 -> Pass, and every p gets exactly one of the four tiers.
C2_TierSteps ==
  (call.fn = "classify_tier" /\ ret.done) =>
    LET p == call.arg
        t == ret.val
    IN /\ t \in {"A", "B", "C", "Pass"}
       /\ t = "A" <=> p >= 600000
       /\ t = "B" <=> (550000 <= p /\ p < 600000)
       /\ t = "C" <=> (520000 <= p /\ p < 550000)
       /\ t = "Pass" <=> p < 520000
       /\ p = 600000 => t = "A"
       /\ p = 599999 => t = "B"
       /\ p = 550000 => t = "B"
       /\ p = 520000 => t = "C"
       /\ p = 519999 => t = "Pass"

\* C2 witness: classify_tier(0.599999) has returned B.
C2_Witness ==
  call.fn = "classify_tier" /\ call.arg = 599999 /\ ret.done /\ ret.val = "B"

\* Provider names that are equal when case is ignored.
CaseClasses ==
  {{"consensus", "Consensus", "CONSENSUS"}, {"Bovada", "bovada"}, {"DraftKings"}, {""}}

SameIgnoringCase(a, b) == \E c \in CaseClasses : a \in c /\ b \in c

\* C5: pick_line returns the first line in list order whose provider equals the
\* preferred provider ignoring case (a null provider counting as empty), else
\* the first line of the list, and None for a game whose lines list is missing,
\* null or empty.
C5_PickLinePrecedence ==
  (call.fn = "pick_line" /\ ret.done) =>
    LET g == call.arg
        lines == g.lines.items
        hits == {i \in 1..Len(lines) :
                   SameIgnoringCase(IF lines[i].provider = None THEN "" ELSE lines[i].provider,
                                    call.pref)}
    IN /\ (g.lines.kind \in {"missing", "null"} \/ lines = <<>>) => ~ret.val.found
       /\ (g.lines.kind = "list" /\ lines # <<>>) =>
            /\ ret.val.found
            /\ hits # {} => \E i \in hits : (\A j \in hits : i <= j) /\ ret.val.line = lines[i]
            /\ hits = {} => ret.val.line = lines[1]

\* C5 witness: the preferred provider, spelled with a capital, is the second
\* of two lines and that line is returned.
C5_Witness ==
  /\ call.fn = "pick_line" /\ ret.done
  /\ call.pref = "consensus"
  /\ Len(call.arg.lines.items) = 2
  /\ call.arg.lines.items[1].provider = "Bovada"
  /\ call.arg.lines.items[2].provider = "Consensus"
  /\ call.arg.lines.items[1] # call.arg.lines.items[2]
  /\ ret.val.found /\ ret.val.line = call.arg.lines.items[2]

\* The line the precedence rule selects from a non-empty list: the first line
\* of the preferred provider, else the first line.
SelectedLine(g) ==
  LET lines == g.lines.items
      hits == {i \in 1..Len(lines) :
                 SameIgnoringCase(IF lines[i].provider = None THEN "" ELSE lines[i].provider,
                                  PROVIDER)}
  IN IF hits # {} THEN lines[CHOOSE i \in hits : \A j \in hits : i <= j] ELSE lines[1]

HasSelectedSpread(g) ==
  /\ g.lines.kind = "list"
  /\ g.lines.items # <<>>
  /\ SelectedLine(g).spread.kind # "null"

BothRated(g) == g.home_team \in DOMAIN ratings /\ g.away_team \in DOMAIN ratings

Modelled(g) == HasSelectedSpread(g) /\ BothRated(g)

\* C3: the rows build_picks returns are, in input order, exactly one row for
\* each game whose selected line exists with a non-null spread and whose two
\* teams are both keys of the rating map; every other game contributes none.
C3_RowsAreModelledGames ==
  pc # "start" =>
    /\ pc # "api_error"
    /\ LET inc == SelectSeq(games, Modelled)
       IN /\ Len(df) = Len(inc)
          /\ \A j \in 1..Len(inc) :
               /\ j <= Len(df)
               /\ df[j].home_team = inc[j].home_team
               /\ df[j].away_team = inc[j].away_team
               /\ df[j].provider = SelectedLine(inc[j]).provider
               /\ df[j].market_spread_home = SelectedLine(inc[j]).spread.val

\* C3 witness: an excluded game stands between two modelled games of different
\* matchups, and the table holds their two rows in that order.
C3_Witness ==
  /\ Built
  /\ Len(games) = 3 /\ Len(df) = 2
  /\ Modelled(games[1]) /\ ~Modelled(games[2]) /\ Modelled(games[3])
  /\ games[1].home_team # games[3].home_team
  /\ df[1].home_team = games[1].home_team
  /\ df[2].home_team = games[3].home_team

HasNumericLine(g) ==
  /\ g.lines.kind = "list"
  /\ \E i \in 1..Len(g.lines.items) : g.lines.items[i].spread.kind = "float"

\* C4 as stated: a game is skipped only if no line of the game has a numeric
\* spread or a team is unrated, so every game with two rated teams and a
\* numeric spread on any of its lines yields a Pick.
C4_AnyNumericLineYieldsPick ==
  Built =>
    Len(df) = Cardinality({i \in 1..Len(games) : BothRated(games[i]) /\ HasNumericLine(games[i])})

\* C4 amended: a game is skipped exactly if its selected line (the preferred
\* provider's first line, else the first line) is missing or has a null
\* spread, or a team is unrated; every game with two rated teams and a numeric
\* spread on its selected line yields a Pick carrying that line, and a numeric
\* spread on another line of the game does not make up for a null one on the
\* selected line.
C4_SelectedLineDecides ==
  Built =>
    /\ \A i \in 1..Len(games) :
         Modelled(games[i]) =>
           \E r \in RowsOf(df) :
             /\ r.home_team = games[i].home_team
             /\ r.away_team = games[i].away_team
             /\ r.provider = SelectedLine(games[i]).provider
             /\ r.market_spread_home = SelectedLine(games[i]).spread.val
    /\ Len(games) - Len(df) = Cardinality({i \in 1..Len(games) : ~Modelled(games[i])})

\* C4 witness: the only game has rated teams, a null spread on the preferred
\* provider's line and a numeric spread on another line, and no row was made.
C4_Witness ==
  /\ Built
  /\ Len(games) = 1 /\ df = <<>>
  /\ BothRated(games[1])
  /\ HasNumericLine(games[1])
  /\ ~HasSelectedSpread(games[1])
  /\ Len(games[1].lines.items) = 2

\* C6: one game with a missing or unusable field never makes build_picks
\* raise: the call completes and its rows are those of the slate without that
\* game.
C6_BadGameIsDropped ==
  (pc # "start" /\ focus > 0) =>
    /\ pc # "api_error"
    /\ df = build_picks(RemoveAt(games, focus), ratings, home_field, PROVIDER).rows

\* C7: in every row, tier is classify_tier of the row's stored cover_prob, so
\* no row has cover_prob >= 0.60 with a tier other than A.
C7_TierOfStoredCover ==
  Built =>
    \A r \in RowsOf(df) :
      /\ r.tier = classify_tier(r.cover_prob)
      /\ r.cover_prob >= 600000 => r.tier = "A"

\* C8: in every row, the pick follows the sign of the row's stored edge_points:
\* 0 gives NO EDGE with cover_prob 0.5 and tier Pass, positive picks home,
\* negative picks away.
C8_SideOfStoredEdge ==
  Built =>
    \A r \in RowsOf(df) :
      /\ r.edge_points = 0 =>
           r.model_pick = <<"NO EDGE">> /\ r.cover_prob = 500000 /\ r.tier = "Pass"
      /\ r.edge_points > 0 => r.model_pick[1] = "HOME"
      /\ r.edge_points < 0 => r.model_pick[1] = "AWAY"

Count(t, r) == Cardinality({i \in 1..Len(t) : t[i] = r})

\* C9: the Strong Picks view holds exactly the rows with |edge_points| >= 2.0,
\* cover_prob >= 0.55 and tier other than Pass: each such row as often as the
\* table holds it, and no other row.
C9_StrongIsTheFilter ==
  pc \in {"strong", "tab1"} =>
    /\ \A r \in RowsOf(strong) : r \in RowsOf(df)
    /\ \A r \in RowsOf(df) :
         Count(strong, r) =
           IF /\ (r.edge_points >= 2000 \/ r.edge_points <= -2000)
              /\ r.cover_prob >= 550000
              /\ r.tier # "Pass"
             THEN Count(df, r)
             ELSE 0

\* C9 witness: a row at exactly |edge| = 2.0 is in the view, next to a row
\* well above the thresholds.
C9_Witness ==
  /\ pc \in {"strong", "tab1"}
  /\ \E r \in RowsOf(strong) : r.edge_points \in {2000, -2000}
  /\ \E r \in RowsOf(strong) : r.edge_points > 2000

\* Stable descending sort: among the rows of highest cover_prob the earliest
\* comes first.
RECURSIVE StableDescending(_)
StableDescending(t) ==
  IF t = <<>> THEN <<>>
  ELSE LET best == CHOOSE i \in 1..Len(t) :
                     /\ \A j \in 1..Len(t) : t[j].cover_prob <= t[i].cover_prob
                     /\ \A j \in 1..(i - 1) : t[j].cover_prob < t[i].cover_prob
       IN <<t[best]>> \o StableDescending(SubSeq(t, 1, best - 1) \o SubSeq(t, best + 1, Len(t)))

NonPassRows == SelectSeq(df, LAMBDA r : r.tier # "Pass")

Min(a, b) == IF a < b THEN a ELSE b

\* C10 as stated: the Top-12 view is the first 12 rows of the stable descending
\* sort of the non-Pass rows, so rows of equal cover_prob keep their input
\* order, also across the cut-off between rank 12 and rank 13.
C10_TopIsStable ==
  pc = "tab1" => top12 = SubSeq(StableDescending(NonPassRows), 1, Min(12, Len(NonPassRows)))

\* C10 amended: the Top-12 view holds only non-Pass rows of the table, has
\* min(12, number of non-Pass rows) entries, is ordered by cover_prob
\* non-increasing, and no non-Pass row left out has a strictly higher
\* cover_prob than a row in the view; the order of rows of equal cover_prob,
\* and which of them fall inside the cut-off, is not determined.
C10_TopIsSortedPrefix ==
  pc = "tab1" =>
    /\ \A r \in RowsOf(top12) : r.tier # "Pass" /\ Count(top12, r) <= Count(df, r)
    /\ Len(top12) = Min(12, Len(NonPassRows))
    /\ \A i \in 1..Len(top12) : \A j \in i..Len(top12) :
         top12[i].cover_prob >= top12[j].cover_prob
    /\ \A r \in RowsOf(NonPassRows) :
         Count(top12, r) < Count(df, r) =>
           \A q \in RowsOf(top12) : q.cover_prob >= r.cover_prob

\* C10 witness: more than 12 non-Pass rows, a tie in cover_prob across the
\* cut-off, and a view that is not the stable one.
C10_Witness ==
  /\ pc = "tab1"
  /\ Len(NonPassRows) > 12
  /\ Len(top12) = 12
  /\ \E r \in RowsOf(NonPassRows) :
       /\ Count(top12, r) < Count(df, r)
       /\ r.cover_prob = top12[12].cover_prob
  /\ top12 # SubSeq(StableDescending(NonPassRows), 1, 12)

\* The rows of the table that may enter a parlay.
EligibleRows == SelectSeq(df, LAMBDA r : r.tier \in {"A", "B"} /\ r.pick_team # "")

\* The parlay tab has run.
Tab2Done == pc \in {"too_few", "parlays"}

\* C11: for every leg_count k in 2..6, the parlay pool holds only rows of the
\* table with tier A or B and a non-empty pick_team, has min(k + 4, number of
\* such rows) entries, is ordered by cover_prob non-increasing, and no
\* eligible row left out has a strictly higher cover_prob than a row in the
\* pool.
C11_PoolIsSortedPrefix ==
  Tab2Done =>
    /\ leg_count \in 2..6
    /\ \A r \in RowsOf(parlay_pool) :
         /\ r.tier \in {"A", "B"}
         /\ r.pick_team # ""
         /\ Count(parlay_pool, r) <= Count(df, r)
    /\ Len(parlay_pool) = Min(leg_count + 4, Len(EligibleRows))
    /\ \A i \in 1..Len(parlay_pool) : \A j \in i..Len(parlay_pool) :
         parlay_pool[i].cover_prob >= parlay_pool[j].cover_prob
    /\ \A r \in RowsOf(EligibleRows) :
         Count(parlay_pool, r) < Count(df, r) =>
           \A q \in RowsOf(parlay_pool) : q.cover_prob >= r.cover_prob

\* C11 witness: more eligible rows than the pool takes, in a table that does
\* not list them best first and also holds a row that is not eligible; the
\* pool is full and a row as good as its last one is left out.
C11_Witness ==
  /\ Tab2Done
  /\ Len(EligibleRows) > leg_count + 4
  /\ Len(EligibleRows) < Len(df)
  /\ \E i \in 1..Len(df) : \E j \in (i + 1)..Len(df) :
       /\ df[i].tier \in {"A", "B"} /\ df[j].tier \in {"A", "B"}
       /\ df[i].cover_prob < df[j].cover_prob
  /\ Len(parlay_pool) = leg_count + 4
  /\ \E r \in RowsOf(EligibleRows) :
       /\ Count(parlay_pool, r) < Count(df, r)
       /\ r.cover_prob = parlay_pool[Len(parlay_pool)].cover_prob

\* The joint_prob of the first n entries of a parlay list.
TopJoint(ps, n) == [i \in 1..Min(n, Len(ps)) |-> ps[i].joint_prob]

\* The legs of the first parlay, as rows.
TopLegs == [i \in 1..Len(parlay_rows[1].legs) |-> parlay_pool[parlay_rows[1].legs[i]]]

\* C17: cutting the pool to the top leg_count + 4 eligible picks loses nothing
\* that is displayed: for every leg_count k in 2..6 the joint_prob of the 5
\* highest-ranked parlays are the 5 highest joint_prob over all k-combinations
\* of all the eligible picks, and the top-ranked parlay is made of the k picks
\* of highest cover_prob.
C17_TruncationLosesNothing ==
  /\ pc = "too_few" => Len(EligibleRows) < leg_count
  /\ pc = "parlays" =>
       /\ TopJoint(ParlaysShown(parlay_rows), 5)
            = TopJoint(ParlayRows(EligibleRows, leg_count), 5)
       /\ Len(TopLegs) = leg_count
       /\ \A r \in RowsOf(EligibleRows) :
            Count(TopLegs, r) < Count(df, r) =>
              \A q \in RowsOf(TopLegs) : q.cover_prob >= r.cover_prob

\* C17 witness: six legs, more than ten eligible picks of two different
\* cover_prob, so the pool leaves picks out and five parlays are shown.
C17_Witness ==
  /\ pc = "parlays"
  /\ leg_count = 6
  /\ Len(EligibleRows) > Len(parlay_pool)
  /\ Len(parlay_rows) > 5
  /\ \E q, r \in RowsOf(EligibleRows) : q.cover_prob # r.cover_prob
  /\ parlay_rows[1].joint_prob > parlay_rows[5].joint_prob

\* n choose k
RECURSIVE Binomial(_, _)
Binomial(n, k) ==
  IF k = 0 THEN 1
  ELSE IF n < k THEN 0
  ELSE (Binomial(n, k - 1) * (n - k + 1)) \div k

\* One entry of the parlay list for every leg_count-element subset of the pool.
OnePerSubset ==
  /\ Len(parlay_rows) = Binomial(Len(parlay_pool), leg_count)
  /\ \A i \in 1..Len(parlay_rows) :
       /\ Len(parlay_rows[i].legs) = leg_count
       /\ Range(parlay_rows[i].legs) \subseteq 1..Len(parlay_pool)
       /\ Cardinality(Range(parlay_rows[i].legs)) = leg_count
  /\ Cardinality({Range(parlay_rows[i].legs) : i \in 1..Len(parlay_rows)}) = Len(parlay_rows)

JointProbDescending ==
  \A i \in 1..Len(parlay_rows) : \A j \in i..Len(parlay_rows) :
    parlay_rows[i].joint_prob >= parlay_rows[j].joint_prob

\* A pool with cover_prob [0.70, 0.65, 0.60] and two legs gives joint_prob
\* [0.455, 0.42, 0.39] in that order.
TrioExample ==
  ([i \in 1..Len(parlay_pool) |-> parlay_pool[i].cover_prob] = <<700000, 650000, 600000>>
     /\ leg_count = 2)
    => [i \in 1..Len(parlay_rows) |-> parlay_rows[i].joint_prob] = <<4550, 4200, 3900>>

\* 10^4 times the product of the cover_prob of the legs c, as the digits of
\* 10^4 * 1000^(k-1) times the product in base 1000, lowest first: the k - 1
\* lowest digits are the fraction.
LegsProduct(c) == MulDigits(ProdDigits(parlay_pool, c, Len(c)), 10, 0)

WholePart(x, k) == DigitsValue(x, k)

FractionIsZero(x, k) == \A i \in 1..(k - 1) : x[i] = 0

FractionBelowHalf(x, k) == k > 1 /\ x[k - 1] < 500

FractionAboveHalf(x, k) ==
  /\ k > 1
  /\ \/ x[k - 1] > 500
     \/ x[k - 1] = 500 /\ \E i \in 1..(k - 2) : x[i] # 0

\* C12 as stated: when the pool has n >= k rows the parlay list has exactly
\* one entry for every k-element subset of the pool, each entry's joint_prob
\* is the product of its legs' cover_prob, and the list is ordered by
\* joint_prob non-increasing.
C12_JointProbIsTheProduct ==
  pc = "parlays" =>
    /\ Len(parlay_pool) >= leg_count
    /\ OnePerSubset
    /\ \A i \in 1..Len(parlay_rows) :
         LET x == LegsProduct(parlay_rows[i].legs)
         IN /\ FractionIsZero(x, leg_count)
            /\ parlay_rows[i].joint_prob = WholePart(x, leg_count)
    /\ JointProbDescending
    /\ TrioExample

\* C12 amended: when the pool has n >= k rows the parlay list has exactly one
\* entry for every k-element subset of the pool (C(n,k) entries of k distinct
\* pool rows, none repeated or missing), each entry's joint_prob is the
\* product of its legs' cover_prob rounded to 4 decimal places (a product
\* exactly halfway between two such values may go either way), and the list
\* is ordered by that rounded joint_prob non-increasing; cover_prob
\* [0.70, 0.65, 0.60] with k = 2 gives [0.455, 0.42, 0.39] in that order.
C12_JointProbIsTheRoundedProduct ==
  pc = "parlays" =>
    /\ Len(parlay_pool) >= leg_count
    /\ OnePerSubset
    /\ \A i \in 1..Len(parlay_rows) :
         LET x == LegsProduct(parlay_rows[i].legs)
             whole == WholePart(x, leg_count)
             jp == parlay_rows[i].joint_prob
         IN /\ jp \in {whole, whole + 1}
            /\ FractionBelowHalf(x, leg_count) => jp = whole
            /\ FractionAboveHalf(x, leg_count) => jp = whole + 1
    /\ JointProbDescending
    /\ TrioExample

\* C12 witness: the pool [0.70, 0.65, 0.60] with two legs and its three parlays.
C12_Witness ==
  /\ pc = "parlays"
  /\ leg_count = 2
  /\ Len(parlay_pool) = 3
  /\ parlay_pool[1].cover_prob = 700000
  /\ parlay_pool[2].cover_prob = 650000
  /\ parlay_pool[3].cover_prob = 600000
  /\ Len(parlay_rows) = 3
  /\ parlay_rows[1].joint_prob = 4550

\* C13: if the pool has fewer rows than leg_count (an empty pool included) the
\* parlay step reports that there are not enough picks and enumerates no
\* combination; combinations are enumerated if and only if the pool has at
\* least leg_count rows; the step raises nothing.
C13_TooFewPicks ==
  Tab2Done =>
    /\ pc = "too_few" <=> Len(parlay_pool) < leg_count
    /\ pc = "too_few" => parlay_rows = <<>>
    /\ pc = "parlays" <=> Len(parlay_pool) >= leg_count
    /\ pc = "parlays" => parlay_rows # <<>>

\* C13 witness: six legs asked for and five picks in the pool.
C13_Witness ==
  /\ pc = "too_few"
  /\ leg_count = 6
  /\ Len(parlay_pool) = 5
  /\ parlay_rows = <<>>

\* C14 as stated: the payout multiplier is ((100/110) + 1) ^ leg_count, and
\* for 2 legs it is about 3.44, shown as 3.44.
C14_TwoLegsPay344 ==
  (pc = "parlays" /\ leg_count = 2) => payout = 344

\* C14 amended: the payout multiplier is ((100/110) + 1) ^ leg_count = (21/11)
\* ^ leg_count rounded to 2 decimals: 3.64 for 2 legs, 6.96 for 3, 13.28 for
\* 4, 25.36 for 5 and 48.41 for 6.
C14_PayoutIsThePower ==
  pc = "parlays" =>
    /\ payout = ((2 :> 364) @@ (3 :> 696) @@ (4 :> 1328) @@ (5 :> 2536) @@ (6 :> 4841))[leg_count]
    /\ leg_count <= 4 =>
         /\ 2 * (payout * Pow(11, leg_count) - 100 * Pow(21, leg_count)) <= Pow(11, leg_count)
         /\ 2 * (100 * Pow(21, leg_count) - payout * Pow(11, leg_count)) <= Pow(11, leg_count)

\* C14 witness: parlays of 2 legs with a payout of 3.64.
C14_Witness ==
  pc = "parlays" /\ leg_count = 2 /\ payout = 364 /\ parlay_rows # <<>>

\* The result v, in tenths of a percent, is num / den rounded to one decimal.
NearestTenth(v, num, den) ==
  /\ 2 * (v * den - num) <= den
  /\ 2 * (num - v * den) <= den

\* american_to_implied returns 100 / (odds + 100) * 100 for odds > 0 and
\* |odds| / (|odds| + 100) * 100 otherwise, rounded to one decimal place, and
\* +150 gives 40.0, -150 gives 60.0, 0 gives 0.0.
ImpliedFormula(odds, v) ==
  /\ odds > 0 => NearestTenth(v, 100 * 1000, odds + 100)
  /\ odds <= 0 => NearestTenth(v, (-odds) * 1000, (-odds) + 100)
  /\ odds = 150 => v = 400
  /\ odds = -150 => v = 600
  /\ odds = 0 => v = 0

\* C16 as stated: american_to_implied is that formula rounded to one decimal
\* place, and the result always lies in [0, 100).
C16_ImpliedBelow100 ==
  (call.fn = "american_to_implied" /\ ret.done) =>
    /\ ImpliedFormula(call.arg, ret.val)
    /\ 0 <= ret.val /\ ret.val < 1000

\* C16 amended: american_to_implied is that formula rounded to one decimal
\* place, +150 gives 40.0, -150 gives 60.0, 0 gives 0.0, and the result always
\* lies in [0, 100]: it is below 100 for every odds above -199900 and is 100.0
\* for the odds from -199900 down.
C16_ImpliedAtMost100 ==
  (call.fn = "american_to_implied" /\ ret.done) =>
    /\ ImpliedFormula(call.arg, ret.val)
    /\ 0 <= ret.val /\ ret.val <= 1000
    /\ call.arg > -199900 => ret.val < 1000
    /\ call.arg <= -199900 => ret.val = 1000

\* C16 witness: american_to_implied(-200000) has returned 100.0.
C16_Witness ==
  call.fn = "american_to_implied" /\ call.arg = -200000 /\ ret.done /\ ret.val = 1000

C18_NoRowsIsAnEmptyResult ==
  (call.fn = "build_weekly_picks" /\ ret.done
     /\ \A i \in 1..Len(games) : ~Modelled(games[i])) =>
    /\ ~ret.val.raised
    /\ ret.val.strong_edges = <<>>
    /\ ret.val.all_games = <<>>

====
